---- MODULE Spec2Model ----
(***************************************************************************)
(* Model of the SWE-bench evaluation examples of ROCK:                     *)
(*   examples/evaluation/swebench_verified.py      (batch script)          *)
(*   examples/evaluation/swe_bench/swe_bench_verified_demo.py (demo)       *)
(*   examples/evaluation/swe_bench/common.py, examples/evaluation/common.py*)
(* Every awaited collaborator call is one action: the call completes with  *)
(* one of its outcomes and the coroutine runs on to its next await.        *)
(* The batch script is modelled as run from the command line, where the    *)
(* __main__ block binds asyncio before any coroutine runs.                 *)
(***************************************************************************)
EXTENDS Integers, Sequences, FiniteSets, TLC

VARIABLES
    program,       \* which entry point runs: "batch", "demo" or "executor"
    tasks_dir,     \* [exists, entries]: the directory given on the command line
    parallel_num,  \* sys.argv[2]
    task_dirs,     \* the task directories run_parallel_evaluations launches
    semaphore,     \* asyncio.Semaphore._value
    main_pc,       \* position of the entry point
    results,       \* the list returned by run_parallel_evaluations
    summary,       \* what main() printed
    exit_code,     \* process exit status, -1 while running
    pc,            \* position of each task's coroutine
    ret,           \* what each task's coroutine returned or raised
    sandbox,       \* state of each task's sandbox
    loc,           \* locals of each task's coroutine
    obs            \* observation of each task: what was called and what happened

vars == <<program, tasks_dir, parallel_num, task_dirs, semaphore, main_pc,
          results, summary, exit_code, pc, ret, sandbox, loc, obs>>

mainVars == <<program, tasks_dir, parallel_num, task_dirs, main_pc, results,
              summary, exit_code>>

-----------------------------------------------------------------------------
(* Bounds *)

MaxEntries == 3
MaxParallel == 2
MaxTimeout == 2
MaxTokens == 5
MaxPieces == 4

TaskIds == 1..MaxEntries

-----------------------------------------------------------------------------
(* Values *)

None == <<>>
Some(v) == <<v>>

Min(a, b) == IF a <= b THEN a ELSE b

RECURSIVE SelectIdx(_, _)
\* indices i of seq with Test(seq[i]) in order; seq given as the listing
SelectIdx(listing, i) ==
    IF i > Len(listing) THEN <<>>
    ELSE IF listing[i] = "task" THEN <<i>> \o SelectIdx(listing, i + 1)
    ELSE SelectIdx(listing, i + 1)

\* line 291: [d for d in tasks_dir.iterdir() if d.is_dir() and (d / "task.yaml").exists()]
DiscoverTaskDirs(listing) == SelectIdx(listing, 1)

\* line 297: task_dirs[:parallel_num]  (parallel_num >= 0)
Slice(dirs, n) == SubSeq(dirs, 1, Min(n, Len(dirs)))

Range(seq) == {seq[i] : i \in 1..Len(seq)}

Pending == [pending |-> TRUE]

\* isinstance(r, dict): a record a task returned, not an exception object
IsDict(r) == "exception" \notin DOMAIN r


-----------------------------------------------------------------------------
(* Text: a string is a sequence of characters *)

Digits == {"1", "7"}
Whitespace == {" ", "\n"}

\* the pieces dispatch responses are built from
Tokens == {<<"[", "1", "]">>, <<"[">>, <<"7">>, <<" ">>, <<"x">>, <<"\n">>}

RECURSIVE Flatten(_)
Flatten(seqs) ==
    IF seqs = <<>> THEN <<>> ELSE Head(seqs) \o Flatten(Tail(seqs))

TokenSeqs == UNION {[1..n -> Tokens] : n \in 0..MaxTokens}

\* every dispatch response of at most MaxTokens pieces
AllResponses == {Flatten(ts) : ts \in TokenSeqs}

JobLine == <<"[", "1", "]", " ", "7">>

\* the dispatch responses the pipeline models draw from
PipelineResponses == {<<>>, JobLine, JobLine \o <<"\n", "x">>}

RECURSIVE SplitAt(_, _, _)
\* pieces of s between newlines, cur being the piece under construction
SplitAt(s, i, cur) ==
    IF i > Len(s) THEN (IF cur = <<>> THEN <<>> ELSE <<cur>>)
    ELSE IF s[i] = "\n" THEN <<cur>> \o SplitAt(s, i + 1, <<>>)
    ELSE SplitAt(s, i + 1, Append(cur, s[i]))

\* str.splitlines(): no empty last line after a final newline
splitlines(s) == SplitAt(s, 1, <<>>)

RECURSIVE LStrip(_)
LStrip(s) ==
    IF s # <<>> /\ Head(s) \in Whitespace THEN LStrip(Tail(s)) ELSE s

RECURSIVE RStrip(_)
RStrip(s) ==
    IF s # <<>> /\ s[Len(s)] \in Whitespace
    THEN RStrip(SubSeq(s, 1, Len(s) - 1)) ELSE s

\* str.strip()
strip(s) == RStrip(LStrip(s))

RECURSIVE RunEnd(_, _, _)
\* first index >= i of s whose character is not in class (Len(s)+1 if none)
RunEnd(s, i, class) ==
    IF i <= Len(s) /\ s[i] \in class THEN RunEnd(s, i + 1, class) ELSE i

\* re.match(r"\[\d+\]\s+(\d+)", line): group(1), or "" when there is no match
MatchJobLine(line) ==
    LET d1 == RunEnd(line, 2, Digits)
        w1 == RunEnd(line, d1 + 1, Whitespace)
        d2 == RunEnd(line, w1, Digits)
    IN  IF /\ Len(line) >= 1 /\ line[1] = "["
           /\ d1 > 2
           /\ d1 <= Len(line) /\ line[d1] = "]"
           /\ w1 > d1 + 1
           /\ d2 > w1
        THEN SubSeq(line, w1, d2 - 1)
        ELSE <<>>

RECURSIVE LastJobLine(_, _)
\* the match of the last of the first i lines that is a job-control line
LastJobLine(lines, i) ==
    IF i = 0 THEN <<>>
    ELSE IF MatchJobLine(strip(lines[i])) # <<>>
    THEN MatchJobLine(strip(lines[i]))
    ELSE LastJobLine(lines, i - 1)

\* test_nohup_exec_redirect.py _extract_pid: every line, the last one first
test_extract_pid(output) ==
    LET lines == splitlines(output)
    IN  LastJobLine(lines, Len(lines))

\* the last line itself returned when it is no job-control line
_extract_pid_fallback(output) ==
    LET lines == splitlines(output)
    IN  IF lines = <<>> THEN <<>>
        ELSE LET last_line == strip(lines[Len(lines)])
             IN  IF MatchJobLine(last_line) # <<>> THEN MatchJobLine(last_line)
                 ELSE last_line

\* swebench_verified.py _extract_pid: the last line only
_extract_pid(output) ==
    LET lines == splitlines(output)
    IN  IF lines = <<>> THEN <<>>
        ELSE MatchJobLine(strip(lines[Len(lines)]))

-----------------------------------------------------------------------------
(* swe_bench/common.py: parse_swebench_result *)

SWEBENCH_RESULT_START_MARKER ==
    <<"S", "W", "E", "B", "e", "n", "c", "h", " ", "r", "e", "s", "u", "l",
      "t", "s", " ", "s", "t", "a", "r", "t", "s", " ", "h", "e", "r", "e">>

SWEBENCH_RESULT_END_MARKER ==
    <<"S", "W", "E", "B", "e", "n", "c", "h", " ", "r", "e", "s", "u", "l",
      "t", "s", " ", "e", "n", "d", "s", " ", "h", "e", "r", "e">>

SWEBENCH_PASSED ==
    <<"P", "A", "S", "S", "E", "D">>

SWEBENCH_FAILED ==
    <<"F", "A", "I", "L", "E", "D">>

RECURSIVE Find(_, _, _)
\* the first index >= from where pat occurs in s, 0 when there is none
Find(s, pat, from) ==
    IF from + Len(pat) - 1 > Len(s) THEN 0
    ELSE IF SubSeq(s, from, from + Len(pat) - 1) = pat THEN from
    ELSE Find(s, pat, from + 1)

\* the verdict taken as the docstring words it: the block contains PASSED
parse_swebench_result_contains(output) ==
    LET a == Find(output, SWEBENCH_RESULT_START_MARKER, 1)
        from == a + Len(SWEBENCH_RESULT_START_MARKER)
        b == IF a = 0 THEN 0
             ELSE Find(output, SWEBENCH_RESULT_END_MARKER, from)
    IN  IF a = 0 \/ b = 0 THEN FALSE
        ELSE Find(SubSeq(output, from, b - 1), SWEBENCH_PASSED, 1) # 0

\* re.search(START \s*(.*?)\s* END, output, re.DOTALL): the text between the
\* first start marker and the nearest end marker after it; group(1).strip()
parse_swebench_result(output) ==
    LET a == Find(output, SWEBENCH_RESULT_START_MARKER, 1)
        from == a + Len(SWEBENCH_RESULT_START_MARKER)
        b == IF a = 0 THEN 0
             ELSE Find(output, SWEBENCH_RESULT_END_MARKER, from)
    IN  IF a = 0 \/ b = 0 THEN FALSE
        ELSE strip(SubSeq(output, from, b - 1)) = SWEBENCH_PASSED

\* scoring outputs the demo pipeline draws from
DemoOutputs ==
    {<<"x">>,
     SWEBENCH_RESULT_START_MARKER \o <<"\n">> \o SWEBENCH_PASSED \o <<"\n">>
         \o SWEBENCH_RESULT_END_MARKER \o <<"\n">>,
     SWEBENCH_RESULT_START_MARKER \o <<"\n">> \o SWEBENCH_FAILED \o <<"\n">>
         \o SWEBENCH_RESULT_END_MARKER \o <<"\n">>}

\* a verdict block as run-tests.sh prints it
VerdictBlock(verdict) ==
    SWEBENCH_RESULT_START_MARKER \o <<"\n">> \o verdict \o <<"\n">>
        \o SWEBENCH_RESULT_END_MARKER \o <<"\n">>

\* the pieces scoring outputs are built from
ScoringPieces ==
    {SWEBENCH_RESULT_START_MARKER, SWEBENCH_RESULT_END_MARKER,
     SWEBENCH_PASSED, SWEBENCH_FAILED, <<"p", "a", "s", "s", "e", "d">>,
     <<"x">>, <<"\n">>,
     VerdictBlock(SWEBENCH_PASSED), VerdictBlock(SWEBENCH_FAILED)}

\* every scoring output of at most MaxPieces pieces
ScoringOutputs ==
    {Flatten(ps) : ps \in UNION {[1..n -> ScoringPieces] : n \in 0..MaxPieces}}

-----------------------------------------------------------------------------
(* Collaborators *)

\* an awaited collaborator call returns, raises an Exception, or is cut by a
\* BaseException that is not an Exception (asyncio.CancelledError)
AwaitOutcomes == {"ok", "exc", "cancel"}

\* what load_task_config gives: a config with an instruction, with an empty
\* one, without one, None (empty task.yaml), or an exception
ConfigKinds == {"valid", "empty", "missing", "none", "unreadable"}

\* the dict yaml.safe_load returns for a config of this kind
TaskConfig(kind) ==
    CASE kind = "valid" -> [instruction |-> "fix the bug"]
      [] kind = "empty" -> [instruction |-> ""]
      [] OTHER -> [description |-> "no instruction"]

\* the default of .get being a prompt instead of the empty string
GetInstructionDefaulted(task_config) ==
    IF "instruction" \in DOMAIN task_config THEN task_config.instruction
    ELSE "default prompt"

\* task_config.get("instruction", "")
GetInstruction(task_config) ==
    IF "instruction" \in DOMAIN task_config THEN task_config.instruction
    ELSE ""

\* examples.evaluation.constants.global_test_timeout_sec, scaled down
global_test_timeout_sec == MaxTimeout

\* contents the remote output file can have when it is read
OutputFiles == {"report", "garbage", "timeout", "execute error"}

PASSED == "passed"
FAILED == "failed"

\* what SWEBenchParser.parse can return: None or a mapping test -> status
\* (a mapping is the set of its <<test, status>> items)
ParserResults ==
    {None, Some({}), Some({<<"t1", PASSED>>}),
     Some({<<"t1", PASSED>>, <<"t2", FAILED>>})}

\* swebench_verified.py is_resolved
is_resolved(parser_results) ==
    IF parser_results = None THEN FALSE
    ELSE \A item \in parser_results[1] : item[2] = PASSED

-----------------------------------------------------------------------------
(* Task results *)

ErrNoInstruction == "No instruction in task.yaml"

\* str(e) of the exception a step raised
ErrorText(at) ==
    CASE at = "load_task_config" -> "config error"
      [] at = "unpack" -> "cannot unpack non-iterable NoneType object"
      [] OTHER -> "collaborator error"

SuccessRecord(t, resolved, parsed) ==
    [task_name |-> t, sandbox_id |-> t, status |-> "success",
     resolved |-> resolved, results |-> parsed]

DemoSuccessRecord(t, resolved) ==
    [task_name |-> t, sandbox_id |-> t, status |-> "success",
     resolved |-> resolved]

FailedRecord(t, err) ==
    [task_name |-> t, status |-> "failed", error |-> err]

\* the failure record also carrying a verdict
FailedRecordWithVerdict(t, err) ==
    [task_name |-> t, sandbox_id |-> t, status |-> "failed",
     resolved |-> FALSE, error |-> err]

FailedRecordWithId(t, err) ==
    [task_name |-> t, sandbox_id |-> t, status |-> "failed", error |-> err]

\* an exception object in place of a result
ExceptionObject(kind) == [exception |-> kind]

\* `except Exception` catches Exception and lets other BaseExceptions pass
ExceptException(kind) == kind = "exc"

\* lines 276-278 and 103-105: the handler around run_swe_evaluation
InnerHandler(t, kind, at) ==
    IF ExceptException(kind) THEN FailedRecordWithId(t, ErrorText(at))
    ELSE ExceptionObject(kind)

\* the handler around the whole task left out: the exception goes on
OuterHandlerMissing(t, kind, at) == ExceptionObject(kind)

\* lines 281-283 and 108-110: the handler around the whole task
OuterHandler(t, kind, at) ==
    IF ExceptException(kind) THEN FailedRecord(t, ErrorText(at))
    ELSE ExceptionObject(kind)

-----------------------------------------------------------------------------
(* Initial state *)

\* the directory listings: entries that are task directories and entries that
\* are not, the latter listed first (the filter of line 291 looks at each
\* entry on its own, so the order of the entries plays no part)
Listings ==
    {l \in UNION {[1..n -> {"task", "other"}] : n \in 0..MaxEntries} :
        \A i \in 2..Len(l) : l[i] = "other" => l[i - 1] = "other"}

\* the frame of run_command_with_timeout and what the call has done
\* together with the remote process the call started (proc) and the output
\* file that process left when it exited (file, known once it is read)
InitLoc == [timeout_sec |-> 0, pid |-> <<>>, resp |-> "", response |-> <<>>,
            probes |-> 0, reads |-> 0, sleeps |-> 0, exit_code |-> 0,
            proc |-> "none", file |-> "",
            session_name |-> "", output_file |-> ""]

InitObs ==
    [config |-> "unread", start_calls |-> 0, stop_calls |-> 0,
     raised |-> {}, exec |-> "none", parse_calls |-> 0,
     script_starts |-> 0, provision |-> "none", archive |-> "absent",
     steps |-> 0, failed_step |-> 0, overtaken |-> FALSE]

InitTasks ==
    /\ pc = [t \in TaskIds |-> "idle"]
    /\ ret = [t \in TaskIds |-> Pending]
    /\ sandbox = [t \in TaskIds |-> "none"]
    /\ loc = [t \in TaskIds |-> InitLoc]
    /\ obs = [t \in TaskIds |-> InitObs]

\* python swebench_verified.py <tasks_dir> [parallel_num], the directory
\* missing or holding one of the given listings
InitBatchOn(listings) ==
    /\ program = "batch"
    /\ tasks_dir \in {[exists |-> FALSE, entries |-> <<>>]}
                     \cup {[exists |-> TRUE, entries |-> l] : l \in listings}
    /\ parallel_num \in 0..MaxParallel
    /\ task_dirs = <<>>
    /\ semaphore = 0
    /\ main_pc = "start"
    /\ results = <<>>
    /\ summary = [total |-> 0, success |-> 0, failed |-> 0, listed |-> {}]
    /\ exit_code = -1
    /\ InitTasks

InitBatch == InitBatchOn(Listings)

\* the empty directory and the directory holding task directories only, as
\* many as a listing has entries
FullListings ==
    {l \in Listings : /\ Len(l) \in {0, MaxEntries}
                      /\ \A i \in 1..Len(l) : l[i] = "task"}

-----------------------------------------------------------------------------
(* State updates shared by the actions *)

\* the coroutine of task t runs on to its next await
TaskStep(t, newpc, newloc, newobs) ==
    /\ pc' = [pc EXCEPT ![t] = newpc]
    /\ loc' = [loc EXCEPT ![t] = newloc]
    /\ obs' = [obs EXCEPT ![t] = newobs]
    /\ UNCHANGED <<ret, semaphore, sandbox, mainVars>>

\* task t, the first launched at line 305, ends when every task launched
\* after it has ended
Overtaken(t) ==
    /\ Len(task_dirs) > 1 /\ t = task_dirs[1]
    /\ \A u \in Range(task_dirs) \ {t} : pc[u] = "done"

\* the permit given back by hand after the body, so kept by an exception
\* that leaves the body
TaskReturnUnguarded(t, value, newobs) ==
    /\ pc' = [pc EXCEPT ![t] = "done"]
    /\ ret' = [ret EXCEPT ![t] = value]
    /\ semaphore' = IF IsDict(value) THEN semaphore + 1 ELSE semaphore
    /\ obs' = [obs EXCEPT ![t] = [newobs EXCEPT !.overtaken = Overtaken(t)]]
    /\ loc' = [loc EXCEPT ![t] = InitLoc]
    /\ UNCHANGED <<sandbox, mainVars>>

\* run_single_task ends with value (a record returned or an exception
\* raised); leaving `async with semaphore` releases the permit (line 247);
\* the frames of the coroutine are gone
TaskReturn(t, value, newobs) ==
    /\ pc' = [pc EXCEPT ![t] = "done"]
    /\ ret' = [ret EXCEPT ![t] = value]
    /\ semaphore' = semaphore + 1
    /\ obs' = [obs EXCEPT ![t] = [newobs EXCEPT !.overtaken = Overtaken(t)]]
    /\ loc' = [loc EXCEPT ![t] = InitLoc]
    /\ UNCHANGED <<sandbox, mainVars>>

\* the kinds of exception the task's steps have raised so far
Raised(o, kind) == [o EXCEPT !.raised = @ \cup {kind}]

\* an exception of this kind leaves a step before the sandbox exists
\* (lines 251-261, handler at 281-283)
OuterRaise(t, kind, at, newobs) ==
    TaskReturn(t, OuterHandler(t, kind, at), Raised(newobs, kind))

\* an exception of this kind leaves run_swe_evaluation (handler at 276-278);
\* in the executor program it leaves run_command_with_timeout
InnerRaise(t, kind, at, newloc, newobs) ==
    IF program = "executor"
    THEN /\ pc' = [pc EXCEPT ![t] = "raised"]
         /\ ret' = [ret EXCEPT ![t] = ExceptionObject(kind)]
         /\ obs' = [obs EXCEPT ![t] = Raised(newobs, kind)]
         /\ loc' = [loc EXCEPT ![t] = newloc]
         /\ UNCHANGED <<semaphore, sandbox, mainVars>>
    ELSE TaskReturn(t, InnerHandler(t, kind, at), Raised(newobs, kind))

\* a linear step of run_swe_evaluation: the awaited call completes
Await(t, at, next, newobs) ==
    \E o \in AwaitOutcomes :
        IF o = "ok" THEN TaskStep(t, next, loc[t], newobs)
        ELSE InnerRaise(t, o, at, loc[t], newobs)

\* run_swe_evaluation returning the pair (False, None) as it does after a
\* timeout
ProvisionFailedUnresolved(t, newobs) ==
    TaskReturn(t, SuccessRecord(t, FALSE, None),
               [newobs EXCEPT !.provision = "failed"])

\* lines 208-210 then 265: _setup_test_env_compress returned False, so
\* run_swe_evaluation returns None and unpacking it raises TypeError
ProvisionFailed(t, newobs) ==
    InnerRaise(t, "exc", "unpack", loc[t],
               [newobs EXCEPT !.provision = "failed"])

-----------------------------------------------------------------------------
(* swebench_verified.py: the command line and run_parallel_evaluations *)

\* the limit dropped: every directory launched, a permit for each
LaunchPlanUngated(dirs, p) == [tasks |-> dirs, permits |-> Len(dirs)]

\* the truncation of line 297 dropped: every directory launched
LaunchPlanUntruncated(dirs, p) == [tasks |-> dirs, permits |-> p]

\* lines 297-306: the tasks launched and the permits of the semaphore
LaunchPlan(dirs, p) == [tasks |-> Slice(dirs, p), permits |-> p]

\* lines 321-338
Main ==
    /\ program = "batch" /\ main_pc = "start"
    /\ IF ~tasks_dir.exists
       THEN /\ exit_code' = 1
            /\ main_pc' = "exited"
       ELSE /\ main_pc' = "run_parallel_evaluations"
            /\ UNCHANGED exit_code
    /\ UNCHANGED <<program, tasks_dir, parallel_num, task_dirs, results,
                   summary, semaphore, pc, ret, sandbox, loc, obs>>

\* lines 286-307, up to the await of gather
run_parallel_evaluations ==
    /\ program = "batch" /\ main_pc = "run_parallel_evaluations"
    /\ LET dirs == DiscoverTaskDirs(tasks_dir.entries)
           plan == LaunchPlan(dirs, parallel_num)
       IN  IF dirs = <<>>
           THEN /\ main_pc' = "summary"
                /\ results' = <<>>
                /\ UNCHANGED <<task_dirs, semaphore, pc>>
           ELSE /\ main_pc' = "gather"
                /\ task_dirs' = plan.tasks
                /\ semaphore' = plan.permits
                /\ pc' = [t \in TaskIds |->
                            IF t \in Range(plan.tasks) THEN "acquire" ELSE pc[t]]
                /\ UNCHANGED results
    /\ UNCHANGED <<program, tasks_dir, parallel_num, summary, exit_code,
                   ret, sandbox, loc, obs>>

RECURSIVE Reverse(_)
Reverse(seq) ==
    IF seq = <<>> THEN <<>> ELSE Reverse(Tail(seq)) \o <<Head(seq)>>

\* the results collected as the tasks finish: the task launched first comes
\* last when it was the last to end
GatherAsCompleted ==
    /\ program = "batch" /\ main_pc = "gather"
    /\ \A t \in Range(task_dirs) : pc[t] = "done"
    /\ LET inorder == [i \in 1..Len(task_dirs) |-> ret[task_dirs[i]]]
       IN  results' = IF \E t \in Range(task_dirs) : obs[t].overtaken
                      THEN Reverse(inorder) ELSE inorder
    /\ main_pc' = "summary"
    /\ UNCHANGED <<program, tasks_dir, parallel_num, task_dirs, summary,
                   exit_code, semaphore, pc, ret, sandbox, loc, obs>>

\* lines 307-309: gather(*tasks, return_exceptions=True) returns
Gather ==
    /\ program = "batch" /\ main_pc = "gather"
    /\ \A t \in Range(task_dirs) : pc[t] = "done"
    /\ results' = [i \in 1..Len(task_dirs) |-> ret[task_dirs[i]]]
    /\ main_pc' = "summary"
    /\ UNCHANGED <<program, tasks_dir, parallel_num, task_dirs, summary,
                   exit_code, semaphore, pc, ret, sandbox, loc, obs>>

\* line 342: json.dump writes dicts, lists, strings, numbers, booleans and
\* None; an exception object or a UnitTestStatus member (a plain Enum, values
\* of a non-empty "results" mapping) makes it raise TypeError
JsonSerializable(r) ==
    /\ IsDict(r)
    /\ "results" \in DOMAIN r => (r.results = None \/ r.results[1] = {})

\* lines 339-365: main() writes the results file and prints the summary
MainSummary ==
    /\ program = "batch" /\ main_pc = "summary"
    /\ IF \E i \in 1..Len(results) : ~JsonSerializable(results[i])
       THEN /\ main_pc' = "crashed"
            /\ exit_code' = 1
            /\ UNCHANGED summary
       ELSE LET success_count ==
                    Cardinality({i \in 1..Len(results) :
                        /\ results[i].status = "success"
                        /\ results[i].resolved = TRUE})
                failed_count == Len(results) - success_count
            IN  /\ summary' =
                     [total |-> Len(results), success |-> success_count,
                      failed |-> failed_count,
                      listed |-> IF failed_count > 0
                                 THEN {i \in 1..Len(results) :
                                          results[i].status = "failed"}
                                 ELSE {}]
                /\ main_pc' = "exited"
                /\ exit_code' = 0
    /\ UNCHANGED <<program, tasks_dir, parallel_num, task_dirs, results,
                   semaphore, pc, ret, sandbox, loc, obs>>

-----------------------------------------------------------------------------
(* swebench_verified.py: run_single_task *)

Launched(t) == program = "batch" /\ t \in Range(task_dirs)

\* line 247: async with semaphore
Acquire(t) ==
    /\ Launched(t) /\ pc[t] = "acquire"
    /\ semaphore > 0
    /\ semaphore' = semaphore - 1
    /\ pc' = [pc EXCEPT ![t] = "load_task_config"]
    /\ UNCHANGED <<ret, sandbox, loc, obs, mainVars>>

\* lines 251-258
LoadTaskConfig(t) ==
    /\ Launched(t) /\ pc[t] = "load_task_config"
    /\ \E kind \in ConfigKinds :
        LET o == [obs[t] EXCEPT !.config = kind]
        IN  IF kind \in {"none", "unreadable"}
            THEN OuterRaise(t, "exc", "load_task_config", o)
            ELSE IF GetInstruction(TaskConfig(kind)) = ""
            THEN TaskReturn(t, FailedRecord(t, ErrNoInstruction), o)
            ELSE TaskStep(t, "start_sandbox", loc[t], o)

\* line 261: start_sandbox (lines 110-129)
StartSandbox(t) ==
    /\ Launched(t) /\ pc[t] = "start_sandbox"
    /\ \E outcome \in AwaitOutcomes :
        LET o == [obs[t] EXCEPT !.start_calls = @ + 1]
        IN  IF outcome = "ok"
            THEN /\ sandbox' = [sandbox EXCEPT ![t] = "running"]
                 /\ pc' = [pc EXCEPT ![t] = "agent_install"]
                 /\ obs' = [obs EXCEPT ![t] = o]
                 /\ UNCHANGED <<ret, semaphore, loc, mainVars>>
            ELSE OuterRaise(t, outcome, "start_sandbox", o)

-----------------------------------------------------------------------------
(* swebench_verified.py: run_swe_evaluation *)

\* line 177
AgentInstall(t) ==
    /\ Launched(t) /\ pc[t] = "agent_install"
    /\ Await(t, "agent_install", "agent_run", obs[t])

\* the agent run followed at once by the preparation of the test environment
AgentRunThenProvision(t) ==
    /\ Launched(t) /\ pc[t] = "agent_run"
    /\ Await(t, "agent_run", "uv_install_wget", obs[t])

\* lines 180-182
AgentRun(t) ==
    /\ Launched(t) /\ pc[t] = "agent_run"
    /\ Await(t, "agent_run", "create_session", obs[t])

\* line 190 (line 45 of the demo): the name of the bash session
session_name == "swe-evaluation"

\* lines 214, 219 and 227: f"{test_dir_path}/test.txt"
test_output_file == "/tests/test.txt"

\* lines 190-197
CreateSession(t) ==
    /\ Launched(t) /\ pc[t] = "create_session"
    /\ \E o \in AwaitOutcomes :
        IF o = "ok"
        THEN TaskStep(t, "uv_install_wget",
                      [loc[t] EXCEPT !.session_name = session_name], obs[t])
        ELSE InnerRaise(t, o, "create_session", loc[t], obs[t])

\* lines 198-203: two commands, their exit codes are not looked at
UvInstall(t) ==
    /\ Launched(t) /\ pc[t] \in {"uv_install_wget", "uv_install_tar"}
    /\ Await(t, "uv_install",
             IF pc[t] = "uv_install_wget" THEN "uv_install_tar" ELSE "mkdir",
             obs[t])

-----------------------------------------------------------------------------
(* swebench_verified.py: _setup_test_env_compress *)

\* a remote step returns success, returns failure, or raises
RemoteOutcomes == {"ok", "fail", "exc", "cancel"}

\* one more remote step of the provisioner has been issued
Issued(o) == [o EXCEPT !.steps = @ + 1]

\* the step just issued came back with a failure
StepFailed(o) == [o EXCEPT !.failed_step = o.steps]

\* lines 80-83
Mkdir(t) ==
    /\ Launched(t) /\ pc[t] = "mkdir"
    /\ \E outcome \in RemoteOutcomes :
        LET o == Issued(obs[t])
        IN  CASE outcome = "ok" -> TaskStep(t, "upload_run_tests", loc[t], o)
              [] outcome = "fail" -> ProvisionFailed(t, StepFailed(o))
              [] OTHER -> InnerRaise(t, outcome, "mkdir", loc[t], o)

\* lines 85-94: on success compress_directory creates the local archive
UploadRunTests(t) ==
    /\ Launched(t) /\ pc[t] = "upload_run_tests"
    /\ \E outcome \in RemoteOutcomes :
        LET o == Issued(obs[t])
        IN  CASE outcome = "ok" ->
                    TaskStep(t, "upload_archive", loc[t],
                             [o EXCEPT !.archive = "present"])
              [] outcome = "fail" -> ProvisionFailed(t, StepFailed(o))
              [] OTHER -> InnerRaise(t, outcome, "upload_run_tests", loc[t], o)

\* lines 95-101
UploadArchive(t) ==
    /\ Launched(t) /\ pc[t] = "upload_archive"
    /\ \E outcome \in RemoteOutcomes :
        LET o == Issued(obs[t])
        IN  CASE outcome = "ok" -> TaskStep(t, "extract", loc[t], o)
              [] outcome = "fail" -> ProvisionFailed(t, StepFailed(o))
              [] OTHER -> InnerRaise(t, outcome, "upload_archive", loc[t], o)

\* lines 102-107: on success cleanup_local deletes the archive
Extract(t) ==
    /\ Launched(t) /\ pc[t] = "extract"
    /\ \E outcome \in RemoteOutcomes :
        LET o == Issued(obs[t])
        IN  CASE outcome = "ok" ->
                    TaskStep(t, "run_tests", loc[t],
                             [o EXCEPT !.archive = "deleted",
                                       !.provision = "ok"])
              [] outcome = "fail" -> ProvisionFailed(t, StepFailed(o))
              [] OTHER -> InnerRaise(t, outcome, "extract", loc[t], o)

\* lines 215-221: the scoring script run in the SDK's nohup mode; then the
\* call of run_command_with_timeout (lines 222-228, 152-155)
RunTestsNohup(t) ==
    /\ Launched(t) /\ pc[t] = "run_tests"
    /\ \E outcome \in AwaitOutcomes :
        IF outcome = "ok"
        THEN TaskStep(t, "dispatch",
                      [loc[t] EXCEPT !.timeout_sec = global_test_timeout_sec,
                                     !.output_file = test_output_file],
                      [obs[t] EXCEPT !.script_starts = @ + 1])
        ELSE InnerRaise(t, outcome, "run_tests", loc[t], obs[t])

-----------------------------------------------------------------------------
(* swebench_verified.py: run_command_with_timeout and its caller *)

Executing(t) == Launched(t) \/ (program = "executor" /\ t = 1)

\* the responses the dispatch call can give; the executor on its own is
\* started with the response its sandbox will give
Responses(t) ==
    IF program = "executor" THEN {loc[t].response} ELSE PipelineResponses

\* lines 229-242 and 268-275: what run_single_task returns for the
\* executor's return value resp
Evaluate(t, resp, newobs) ==
    IF resp = "timeout" \/ resp = "execute error"
    THEN TaskReturn(t, SuccessRecord(t, FALSE, None), newobs)
    ELSE LET o == [newobs EXCEPT !.parse_calls = @ + 1]
         IN  \/ \E parsed \in ParserResults :
                  TaskReturn(t, SuccessRecord(t, is_resolved(parsed), parsed),
                             o)
             \/ InnerRaise(t, "exc", "parse", loc[t], o)

\* run_command_with_timeout returns resp to its caller
ExecutorReturn(t, resp, newloc, newobs) ==
    IF program = "executor"
    THEN TaskStep(t, "returned", [newloc EXCEPT !.resp = resp], newobs)
    ELSE Evaluate(t, resp, newobs)

\* the loop test letting a budget of zero in
LoopOrLeaveInclusive(t, newloc, newobs) ==
    IF newloc.timeout_sec >= 0 THEN TaskStep(t, "probe", newloc, newobs)
    ELSE TaskStep(t, "read_output", newloc, newobs)

\* the process killed when the budget is used up
LoopOrLeaveKilling(t, newloc, newobs) ==
    IF newloc.timeout_sec > 0 THEN TaskStep(t, "probe", newloc, newobs)
    ELSE IF newloc.timeout_sec = 0
    THEN ExecutorReturn(t, "timeout", [newloc EXCEPT !.proc = "exited"],
                        [newobs EXCEPT !.exec = "timeout"])
    ELSE TaskStep(t, "read_output", newloc, newobs)

\* lines 160, 166-168: the loop test, and what follows the loop
LoopOrLeave(t, newloc, newobs) ==
    IF newloc.timeout_sec > 0 THEN TaskStep(t, "probe", newloc, newobs)
    ELSE IF newloc.timeout_sec = 0
    THEN ExecutorReturn(t, "timeout", newloc,
                        [newobs EXCEPT !.exec = "timeout"])
    ELSE TaskStep(t, "read_output", newloc, newobs)

\* lines 155-160: the dispatch call returns, the PID is extracted
Dispatch(t) ==
    /\ Executing(t) /\ pc[t] = "dispatch"
    /\ \/ \E output \in Responses(t) :
            LET pid == _extract_pid(output)
                l == [loc[t] EXCEPT !.pid = pid, !.response = output,
                                    !.proc = "alive"]
                o == [obs[t] EXCEPT !.script_starts = @ + 1]
            IN  IF pid = <<>>
                THEN ExecutorReturn(t, "execute error", l,
                                    [o EXCEPT !.exec = "dispatch_error"])
                ELSE LoopOrLeave(t, l, o)
       \/ \E kind \in {"exc", "cancel"} :
            InnerRaise(t, kind, "dispatch", loc[t],
                       [obs[t] EXCEPT !.exec = "raised"])

\* the remote process ends on its own, its output file complete
ProcessExit(t) ==
    /\ Executing(t) /\ pc[t] \in {"probe", "sleep", "read_output"}
    /\ loc[t].proc = "alive"
    /\ TaskStep(t, pc[t], [loc[t] EXCEPT !.proc = "exited"], obs[t])

\* lines 161-163: kill -0 pid gives exit code 0 while the process lives
Probe(t) ==
    /\ Executing(t) /\ pc[t] = "probe"
    /\ \/ LET code == IF loc[t].proc = "alive" THEN 0 ELSE 1
              l == [loc[t] EXCEPT !.probes = @ + 1, !.exit_code = code]
          IN  IF code # 0 THEN TaskStep(t, "read_output", l, obs[t])
              ELSE TaskStep(t, "sleep", l, obs[t])
       \/ \E kind \in {"exc", "cancel"} :
            InnerRaise(t, kind, "probe", [loc[t] EXCEPT !.probes = @ + 1],
                       [obs[t] EXCEPT !.exec = "raised"])

\* lines 164-165, then the loop test: asyncio.sleep(1); timeout_sec -= 1
Sleep(t) ==
    /\ Executing(t) /\ pc[t] = "sleep"
    /\ \E outcome \in {"ok", "cancel"} :
        IF outcome = "ok"
        THEN LoopOrLeave(t, [loc[t] EXCEPT !.timeout_sec = @ - 1,
                                           !.sleeps = @ + 1], obs[t])
        ELSE InnerRaise(t, outcome, "sleep", loc[t],
                        [obs[t] EXCEPT !.exec = "raised"])

\* lines 168-169: cat output_file gives the file the process left (file), or
\* whatever a process still running has written so far
ReadOutput(t) ==
    /\ Executing(t) /\ pc[t] = "read_output"
    /\ LET l == [loc[t] EXCEPT !.reads = @ + 1]
       IN  \/ \E content \in OutputFiles :
                ExecutorReturn(t, content,
                    [l EXCEPT !.file = IF loc[t].proc = "exited"
                                       THEN content ELSE ""],
                    [obs[t] EXCEPT !.exec = "completed"])
           \/ \E kind \in {"exc", "cancel"} :
                InnerRaise(t, kind, "read_output", l,
                           [obs[t] EXCEPT !.exec = "raised"])

\* run_command_with_timeout called on its own, for every timeout_sec and
\* every response of the given set
InitExecutorOn(responses) ==
    /\ program = "executor"
    /\ tasks_dir = [exists |-> FALSE, entries |-> <<>>]
    /\ parallel_num = 0
    /\ task_dirs = <<>>
    /\ semaphore = 0
    /\ main_pc = "none"
    /\ results = <<>>
    /\ summary = [total |-> 0, success |-> 0, failed |-> 0, listed |-> {}]
    /\ exit_code = -1
    /\ ret = [t \in TaskIds |-> Pending]
    /\ sandbox = [t \in TaskIds |-> "none"]
    /\ obs = [t \in TaskIds |-> InitObs]
    /\ pc = [t \in TaskIds |-> IF t = 1 THEN "dispatch" ELSE "idle"]
    /\ \E timeout \in -1..MaxTimeout, output \in responses :
         loc = [t \in TaskIds |->
                  IF t = 1 THEN [InitLoc EXCEPT !.timeout_sec = timeout,
                                                !.response = output]
                  ELSE InitLoc]

InitExecutor == InitExecutorOn(AllResponses)

-----------------------------------------------------------------------------
(* swe_bench_verified_demo.py: run_task and run_swe_evaluation *)

Demo(t) == program = "demo" /\ t = 1

\* python -m examples.evaluation.swe_bench.swe_bench_verified_demo
InitDemo ==
    /\ program = "demo"
    /\ tasks_dir \in {[exists |-> e, entries |-> <<>>] : e \in BOOLEAN}
    /\ parallel_num = 0
    /\ task_dirs = <<>>
    /\ semaphore = 0
    /\ main_pc = "start"
    /\ results = <<>>
    /\ summary = [total |-> 0, success |-> 0, failed |-> 0, listed |-> {}]
    /\ exit_code = -1
    /\ InitTasks

\* the inner try of run_task ends with value (a record to return or an
\* exception under way); the finally clause awaits sandbox.stop() (line 107)
DemoFinally(t, value, newobs) ==
    /\ pc' = [pc EXCEPT ![t] = "stop"]
    /\ ret' = [ret EXCEPT ![t] = value]
    /\ obs' = [obs EXCEPT ![t] = newobs]
    /\ UNCHANGED <<loc, semaphore, sandbox, mainVars>>

\* run_task ends with value
DemoEnd(t, value, newobs) ==
    /\ pc' = [pc EXCEPT ![t] = "done"]
    /\ ret' = [ret EXCEPT ![t] = value]
    /\ obs' = [obs EXCEPT ![t] = newobs]
    /\ UNCHANGED <<loc, semaphore, mainVars>>

\* the handler returning at once, no finally clause run
DemoInnerRaiseUnstopped(t, kind, at, newobs) ==
    /\ DemoEnd(t, InnerHandler(t, kind, at), Raised(newobs, kind))
    /\ UNCHANGED sandbox

\* an exception leaves run_swe_evaluation (handler at lines 103-105)
DemoInnerRaise(t, kind, at, newobs) ==
    DemoFinally(t, InnerHandler(t, kind, at), Raised(newobs, kind))

\* a linear step of the demo's run_swe_evaluation
DemoAwait(t, at, next, newobs) ==
    \E o \in AwaitOutcomes :
        IF o = "ok" THEN TaskStep(t, next, loc[t], newobs)
        ELSE DemoInnerRaise(t, o, at, newobs)

\* the value setup_test_env returned not looked at
DemoProvisionFailedIgnored(t, newobs) ==
    /\ TaskStep(t, "run_tests", loc[t], [newobs EXCEPT !.provision = "failed"])

\* lines 59-61 then 95-102: setup_test_env returned False, run_swe_evaluation
\* returns False and run_task reports success with resolved False
DemoProvisionFailed(t, newobs) ==
    DemoFinally(t, DemoSuccessRecord(t, FALSE),
                [newobs EXCEPT !.provision = "failed"])

\* lines 113-127
DemoMain ==
    /\ program = "demo" /\ main_pc = "start"
    /\ IF ~tasks_dir.exists
       THEN /\ exit_code' = 1
            /\ main_pc' = "exited"
            /\ UNCHANGED pc
       ELSE /\ main_pc' = "run_task"
            /\ pc' = [pc EXCEPT ![1] = "load_task_config"]
            /\ UNCHANGED exit_code
    /\ UNCHANGED <<program, tasks_dir, parallel_num, task_dirs, results,
                   summary, semaphore, ret, sandbox, loc, obs>>

\* lines 79-88
DemoLoadTaskConfig(t) ==
    /\ Demo(t) /\ pc[t] = "load_task_config"
    /\ UNCHANGED sandbox
    /\ \E kind \in ConfigKinds :
        LET o == [obs[t] EXCEPT !.config = kind]
        IN  IF kind \in {"none", "unreadable"}
            THEN DemoEnd(t, OuterHandler(t, "exc", "load_task_config"),
                         Raised(o, "exc"))
            ELSE IF GetInstruction(TaskConfig(kind)) = ""
            THEN DemoEnd(t, FailedRecord(t, ErrNoInstruction), o)
            ELSE TaskStep(t, "start_sandbox", loc[t], o)

\* line 91: start_sandbox (swe_bench/common.py lines 75-81)
DemoStartSandbox(t) ==
    /\ Demo(t) /\ pc[t] = "start_sandbox"
    /\ \E outcome \in AwaitOutcomes :
        LET o == [obs[t] EXCEPT !.start_calls = @ + 1]
        IN  IF outcome = "ok"
            THEN /\ sandbox' = [sandbox EXCEPT ![t] = "running"]
                 /\ pc' = [pc EXCEPT ![t] = "agent_install"]
                 /\ obs' = [obs EXCEPT ![t] = o]
                 /\ UNCHANGED <<ret, semaphore, loc, mainVars>>
            ELSE /\ DemoEnd(t, OuterHandler(t, outcome, "start_sandbox"),
                            Raised(o, outcome))
                 /\ UNCHANGED sandbox

\* line 38
DemoAgentInstall(t) ==
    /\ Demo(t) /\ pc[t] = "agent_install"
    /\ DemoAwait(t, "agent_install", "agent_run", obs[t])

\* lines 41-42
DemoAgentRun(t) ==
    /\ Demo(t) /\ pc[t] = "agent_run"
    /\ DemoAwait(t, "agent_run", "create_session", obs[t])

\* lines 45-52
DemoCreateSession(t) ==
    /\ Demo(t) /\ pc[t] = "create_session"
    /\ \E o \in AwaitOutcomes :
        IF o = "ok"
        THEN TaskStep(t, "uv_install_wget",
                      [loc[t] EXCEPT !.session_name = session_name], obs[t])
        ELSE DemoInnerRaise(t, o, "create_session", obs[t])

\* swe_bench/common.py lines 30-39 and 45-46, 57-59: three commands, a
\* non-zero exit code raises RuntimeError, which setup_test_env re-raises
DemoInstallUv(t) ==
    /\ Demo(t)
    /\ pc[t] \in {"uv_install_wget", "uv_install_tar", "uv_install_version"}
    /\ \E outcome \in RemoteOutcomes :
        LET o == Issued(obs[t])
        IN  CASE outcome = "ok" ->
                    TaskStep(t, CASE pc[t] = "uv_install_wget" -> "uv_install_tar"
                                  [] pc[t] = "uv_install_tar" -> "uv_install_version"
                                  [] OTHER -> "upload_dir",
                             loc[t], o)
              [] outcome = "fail" ->
                    DemoInnerRaise(t, "exc", "uv_install", StepFailed(o))
              [] OTHER -> DemoInnerRaise(t, outcome, "uv_install", o)

\* swe_bench/common.py lines 48-50
DemoUploadDir(t) ==
    /\ Demo(t) /\ pc[t] = "upload_dir"
    /\ \E outcome \in RemoteOutcomes :
        LET o == Issued(obs[t])
        IN  CASE outcome = "ok" -> TaskStep(t, "upload_run_tests", loc[t], o)
              [] outcome = "fail" -> DemoProvisionFailed(t, StepFailed(o))
              [] OTHER -> DemoInnerRaise(t, outcome, "upload_dir", o)

\* swe_bench/common.py lines 52-56
DemoUploadRunTests(t) ==
    /\ Demo(t) /\ pc[t] = "upload_run_tests"
    /\ \E outcome \in RemoteOutcomes :
        LET o == Issued(obs[t])
        IN  CASE outcome = "ok" ->
                    TaskStep(t, "run_tests", loc[t],
                             [o EXCEPT !.provision = "ok"])
              [] outcome = "fail" -> DemoProvisionFailed(t, StepFailed(o))
              [] OTHER -> DemoInnerRaise(t, outcome, "upload_run_tests", o)

\* lines 63-74 then 95-102: the scoring script run in the SDK's nohup mode,
\* its output parsed
DemoRunTests(t) ==
    /\ Demo(t) /\ pc[t] = "run_tests"
    /\ \/ \E output \in DemoOutputs :
            DemoFinally(t, DemoSuccessRecord(t, parse_swebench_result(output)),
                        [obs[t] EXCEPT !.script_starts = @ + 1])
       \/ \E kind \in {"exc", "cancel"} :
            DemoInnerRaise(t, kind, "run_tests", obs[t])

\* lines 106-110: sandbox.stop() in the finally clause; an exception it
\* raises replaces what the inner try produced
DemoStop(t) ==
    /\ Demo(t) /\ pc[t] = "stop"
    /\ \E outcome \in AwaitOutcomes :
        LET o == [obs[t] EXCEPT !.stop_calls = @ + 1]
        IN  IF outcome = "ok"
            THEN /\ sandbox' = [sandbox EXCEPT ![t] = "stopped"]
                 /\ DemoEnd(t, ret[t], o)
            ELSE /\ UNCHANGED sandbox
                 /\ DemoEnd(t, OuterHandler(t, outcome, "stop"),
                            Raised(o, outcome))

\* line 127: asyncio.run returns or re-raises
DemoExit ==
    /\ program = "demo" /\ main_pc = "run_task" /\ pc[1] = "done"
    /\ main_pc' = IF IsDict(ret[1]) THEN "exited" ELSE "crashed"
    /\ exit_code' = IF IsDict(ret[1]) THEN 0 ELSE 1
    /\ UNCHANGED <<program, tasks_dir, parallel_num, task_dirs, results,
                   summary, semaphore, pc, ret, sandbox, loc, obs>>

-----------------------------------------------------------------------------
(* parse_swebench_result called on its own *)

InitParser ==
    /\ program = "parser"
    /\ tasks_dir = [exists |-> FALSE, entries |-> <<>>]
    /\ parallel_num = 0
    /\ task_dirs = <<>>
    /\ semaphore = 0
    /\ main_pc = "none"
    /\ results = <<>>
    /\ summary = [total |-> 0, success |-> 0, failed |-> 0, listed |-> {}]
    /\ exit_code = -1
    /\ ret = [t \in TaskIds |-> Pending]
    /\ sandbox = [t \in TaskIds |-> "none"]
    /\ obs = [t \in TaskIds |-> InitObs]
    /\ pc = [t \in TaskIds |-> IF t = 1 THEN "parse" ELSE "idle"]
    /\ \E output \in ScoringOutputs :
         loc = [t \in TaskIds |->
                  IF t = 1 THEN [InitLoc EXCEPT !.response = output]
                  ELSE InitLoc]

\* swe_bench/common.py lines 62-72: the call returns the verdict
ParseResult(t) ==
    /\ program = "parser" /\ pc[t] = "parse"
    /\ pc' = [pc EXCEPT ![t] = "returned"]
    /\ ret' = [ret EXCEPT ![t] =
                 [value |-> parse_swebench_result(loc[t].response)]]
    /\ UNCHANGED <<loc, obs, semaphore, sandbox, mainVars>>

-----------------------------------------------------------------------------
(* Specifications *)

BatchTask(t) ==
    \/ Acquire(t) \/ LoadTaskConfig(t) \/ StartSandbox(t)
    \/ AgentInstall(t) \/ AgentRun(t) \/ CreateSession(t) \/ UvInstall(t)
    \/ Mkdir(t) \/ UploadRunTests(t) \/ UploadArchive(t) \/ Extract(t)
    \/ RunTestsNohup(t)

Executor(t) ==
    \/ Dispatch(t) \/ Probe(t) \/ Sleep(t) \/ ReadOutput(t)
    \/ ProcessExit(t)

DemoTask(t) ==
    \/ DemoLoadTaskConfig(t) \/ DemoStartSandbox(t) \/ DemoAgentInstall(t)
    \/ DemoAgentRun(t) \/ DemoCreateSession(t) \/ DemoInstallUv(t)
    \/ DemoUploadDir(t) \/ DemoUploadRunTests(t) \/ DemoRunTests(t)
    \/ DemoStop(t)

\* either script is run
Init == InitBatch \/ InitDemo

Next ==
    \/ Main \/ run_parallel_evaluations \/ Gather \/ MainSummary
    \/ \E t \in TaskIds : BatchTask(t) \/ Executor(t)
    \/ DemoMain \/ DemoExit
    \/ \E t \in TaskIds : DemoTask(t)

Spec == Init /\ [][Next]_vars

NextExec == \E t \in TaskIds : Executor(t)

SpecExec == InitExecutor /\ [][NextExec]_vars

NextParse == \E t \in TaskIds : ParseResult(t)

SpecParse == InitParser /\ [][NextParse]_vars

\* the event loop resumes the coroutine whenever the call it awaits
\* completes, and every awaited call completes; the responses are those of
\* the pipeline
FairSpecExec ==
    /\ InitExecutorOn(PipelineResponses)
    /\ [][NextExec]_vars
    /\ WF_vars(NextExec)

NextBatch ==
    \/ Main \/ run_parallel_evaluations \/ Gather \/ MainSummary
    \/ \E t \in TaskIds : BatchTask(t) \/ Executor(t)

\* the batch script under asyncio's scheduling: a coroutine whose awaited
\* call has completed is resumed, every awaited call completes, and the
\* remote process, left alone, ends; the directory is missing, empty or full
\* of task directories
FairSpecBatch ==
    /\ InitBatchOn(FullListings)
    /\ [][NextBatch]_vars
    /\ WF_vars(NextBatch)

-----------------------------------------------------------------------------
(* Claims *)

Done(t) == pc[t] = "done"

\* the tasks inside `async with semaphore`
Holders == {t \in TaskIds : Launched(t) /\ pc[t] \notin {"idle", "acquire", "done"}}

\* the task directories line 291 finds
Discovered == DiscoverTaskDirs(tasks_dir.entries)

\* run_parallel_evaluations has returned its list
BatchReturned ==
    /\ program = "batch" /\ tasks_dir.exists
    /\ main_pc \in {"summary", "exited", "crashed"}

\* C1: at every moment at most parallel_num invocations of run_single_task
\* hold a permit, and at most parallel_num unfinished tasks have a sandbox.
C1_PermitBound ==
    program = "batch" =>
        /\ Cardinality(Holders) <= parallel_num
        /\ Cardinality({t \in TaskIds : ~Done(t) /\ sandbox[t] = "running"})
               <= parallel_num

C1_Witness ==
    /\ program = "batch" /\ parallel_num = 2
    /\ Len(Discovered) > parallel_num
    /\ Cardinality(Holders) = parallel_num
    /\ \A t \in Holders : sandbox[t] = "running"

\* C2: one run_single_task is launched per discovered task directory and the
\* returned list has one result per discovered task, for every parallel_num
\* >= 1.
C2_OneResultPerTask ==
    (program = "batch" /\ parallel_num >= 1) =>
        /\ main_pc = "gather" => Len(task_dirs) = Len(Discovered)
        /\ BatchReturned => Len(results) = Len(Discovered)

\* C3: when run_single_task has returned, a sandbox that start_sandbox
\* returned has been stopped.
C3_SandboxStopped ==
    \A t \in TaskIds :
        (Launched(t) /\ Done(t) /\ sandbox[t] # "none") =>
            sandbox[t] = "stopped"

\* C4: a timeout or a dispatch error of the executor gives a TaskResult with
\* status failed and an error cause.
C4_TimeoutIsFailure ==
    \A t \in TaskIds :
        (Launched(t) /\ Done(t)
            /\ obs[t].exec \in {"timeout", "dispatch_error"}) =>
            /\ IsDict(ret[t])
            /\ ret[t].status = "failed"
            /\ "error" \in DOMAIN ret[t]

\* the executor call of task t raised or returned the dispatch error
ExecutorFailed(t) ==
    \/ obs[t].exec = "dispatch_error"
    \/ obs[t].exec = "raised" /\ obs[t].raised = {"exc"}

\* task t ran every step without a failure and its output was read
CompletedNormally(t) == obs[t].exec = "completed" /\ obs[t].raised = {}

\* C5: in a batch of two tasks where A's executor call fails and B completes
\* normally, the returned list has a failed record for A and a success
\* record for B.
C5_FailureIsolation ==
    (BatchReturned /\ Len(task_dirs) = 2) =>
        \A a, b \in 1..2 :
            (a # b /\ ExecutorFailed(task_dirs[a])
                   /\ CompletedNormally(task_dirs[b])) =>
                /\ IsDict(results[a]) /\ results[a].status = "failed"
                /\ IsDict(results[b]) /\ results[b].status = "success"

\* C6 as stated: whatever a step raises, a finished task runner has returned
\* a record.
C6_NoExceptionEscapes ==
    \A t \in TaskIds : Done(t) => IsDict(ret[t])

\* C6 amended: when every exception the steps raised is an Exception (none
\* is a CancelledError), a finished run_single_task or run_task has returned
\* a record.
C6_ExceptionsCaught ==
    \A t \in TaskIds :
        (Done(t) /\ "cancel" \notin obs[t].raised) =>
            /\ IsDict(ret[t])
            /\ obs[t].raised # {} => ret[t].status = "failed"

\* the demo's sandbox.stop() raised and run_task still returned a record
C6_Witness ==
    /\ program = "demo" /\ Done(1)
    /\ obs[1].stop_calls = 1 /\ sandbox[1] = "running"
    /\ obs[1].raised = {"exc"}
    /\ IsDict(ret[1]) /\ ret[1].status = "failed"

\* C7: an exception that escapes a run_single_task shows in the returned
\* list as a failure-shaped record (task_name, status failed, error).
C7_EscapeBecomesFailureRecord ==
    BatchReturned =>
        \A i \in 1..Len(results) :
            /\ IsDict(results[i])
            /\ "cancel" \in obs[task_dirs[i]].raised =>
                  /\ results[i].task_name = task_dirs[i]
                  /\ results[i].status = "failed"
                  /\ "error" \in DOMAIN results[i]

\* C8: a config with a missing or empty instruction gives a failed record
\* and start() is never called for the task.
C8_NoInstructionNoStart ==
    \A t \in TaskIds :
        obs[t].config \in {"empty", "missing"} =>
            /\ Done(t)
            /\ IsDict(ret[t]) /\ ret[t].status = "failed"
            /\ obs[t].start_calls = 0
            /\ sandbox[t] = "none"

C8_Witness ==
    /\ program = "batch"
    /\ \E t, u \in TaskIds :
        /\ obs[t].config = "missing" /\ Done(t)
        /\ obs[u].config = "valid" /\ sandbox[u] = "running"

\* C9: every record a task runner returned has task_name, a status in
\* {success, failed}, resolved iff success and error iff failed.
C9_ResultShape ==
    \A t \in TaskIds :
        (Done(t) /\ IsDict(ret[t])) =>
            /\ "task_name" \in DOMAIN ret[t]
            /\ ret[t].status \in {"success", "failed"}
            /\ ("resolved" \in DOMAIN ret[t]) <=> (ret[t].status = "success")
            /\ ("error" \in DOMAIN ret[t]) <=> (ret[t].status = "failed")

C9_Witness ==
    \E t, u \in TaskIds :
        /\ Done(t) /\ IsDict(ret[t]) /\ ret[t].status = "success"
        /\ Done(u) /\ IsDict(ret[u]) /\ ret[u].status = "failed"
        /\ "sandbox_id" \in DOMAIN ret[u]

\* no line of the response is a job-control line "[n] pid"
NoParseablePid(output) ==
    \A i \in 1..Len(splitlines(output)) :
        MatchJobLine(strip(splitlines(output)[i])) = <<>>

\* the dispatch call of the executor has given its response
Responded(t) == program = "executor" /\ obs[t].script_starts > 0

\* C10: for a dispatch response without a parseable PID the executor
\* returns the dispatch error, does not raise, probes nothing and reads
\* nothing.
C10_NoPidIsDispatchError ==
    \A t \in TaskIds :
        (Responded(t) /\ NoParseablePid(loc[t].response)) =>
            /\ pc[t] = "returned"
            /\ loc[t].resp = "execute error"
            /\ loc[t].probes = 0
            /\ loc[t].reads = 0

C10_Witness ==
    /\ Responded(1) /\ NoParseablePid(loc[1].response)
    /\ Len(splitlines(loc[1].response)) = 2
    /\ pc[1] = "returned"

-----------------------------------------------------------------------------
(* run_command_with_timeout: outcomes and timing *)

\* the timeout_sec the executor was called with
TimeoutArg(t) == loc[t].timeout_sec + loc[t].sleeps

ExecutorReturned(t) == program = "executor" /\ pc[t] = "returned"

\* C11: a remote command that exits before its deadline, at any moment of
\* the polling loop including the last one-second sleep, makes
\* run_command_with_timeout return the Completed outcome, its output being
\* the content of the output file at process exit.
C11_ExitBeforeDeadlineCompletes ==
    \A t \in TaskIds :
        (/\ ExecutorReturned(t)
         /\ TimeoutArg(t) >= 1
         /\ loc[t].proc = "exited")
        => /\ obs[t].exec = "completed"
           /\ loc[t].reads = 1
           /\ loc[t].resp = loc[t].file

C12_Budget ==
    \A t \in TaskIds :
        /\ TimeoutArg(t) >= 1 => loc[t].probes <= TimeoutArg(t)
        /\ (/\ ExecutorReturned(t)
            /\ TimeoutArg(t) >= 1
            /\ loc[t].pid # <<>>
            /\ loc[t].exit_code = 0)
           => /\ obs[t].exec = "timeout"
              /\ loc[t].resp = "timeout"
              /\ loc[t].probes = TimeoutArg(t)
              /\ loc[t].sleeps = TimeoutArg(t)
              /\ loc[t].reads = 0

\* C12: with timeout_sec = T >= 1 and every probe finding the process alive,
\* run_command_with_timeout ends with the TimedOut outcome after exactly T
\* probes and T sleeps; it never makes more than T probes whatever the
\* process does, and the call always ends.
C12_TimesOutAfterTProbes ==
    /\ []C12_Budget
    /\ <>(pc[1] \in {"returned", "raised"})

C12_Witness ==
    /\ ExecutorReturned(1)
    /\ TimeoutArg(1) = MaxTimeout
    /\ loc[1].probes = MaxTimeout /\ loc[1].sleeps = MaxTimeout
    /\ loc[1].exit_code = 0
    /\ loc[1].resp = "timeout"

\* C13: a scoring command that completed before the deadline is handed to
\* the result parser whatever its output is, also when the output file holds
\* exactly the text "timeout" or "execute error".
C13_SentinelTextIsParsed ==
    \A t \in TaskIds :
        (Launched(t) /\ Done(t) /\ obs[t].exec = "completed")
        => obs[t].parse_calls = 1

-----------------------------------------------------------------------------
(* parse_swebench_result *)

Parsed(t) == program = "parser" /\ pc[t] = "returned"

OccursAt(s, pat, i) ==
    /\ i >= 1 /\ i + Len(pat) - 1 <= Len(s)
    /\ SubSeq(s, i, i + Len(pat) - 1) = pat

\* the text between the first start marker and the nearest end marker
\* after it is, trimmed, exactly PASSED
FirstBlockIsPassed(s) ==
    \E a \in 1..Len(s) :
        /\ OccursAt(s, SWEBENCH_RESULT_START_MARKER, a)
        /\ \A i \in 1..(a - 1) : ~OccursAt(s, SWEBENCH_RESULT_START_MARKER, i)
        /\ LET from == a + Len(SWEBENCH_RESULT_START_MARKER)
           IN  \E b \in from..Len(s) :
                 /\ OccursAt(s, SWEBENCH_RESULT_END_MARKER, b)
                 /\ \A i \in from..(b - 1) :
                        ~OccursAt(s, SWEBENCH_RESULT_END_MARKER, i)
                 /\ strip(SubSeq(s, from, b - 1)) = SWEBENCH_PASSED

TwoBlocks(s) ==
    LET a1 == Find(s, SWEBENCH_RESULT_START_MARKER, 1)
        b1 == IF a1 = 0 THEN 0
              ELSE Find(s, SWEBENCH_RESULT_END_MARKER,
                        a1 + Len(SWEBENCH_RESULT_START_MARKER))
        a2 == IF b1 = 0 THEN 0
              ELSE Find(s, SWEBENCH_RESULT_START_MARKER,
                        b1 + Len(SWEBENCH_RESULT_END_MARKER))
        b2 == IF a2 = 0 THEN 0
              ELSE Find(s, SWEBENCH_RESULT_END_MARKER,
                        a2 + Len(SWEBENCH_RESULT_START_MARKER))
    IN  b2 # 0

\* C15: an output with more than one marker-delimited verdict block gives
\* resolved = false.
C15_TwoBlocksUnresolved ==
    \A t \in TaskIds :
        (Parsed(t) /\ TwoBlocks(loc[t].response)) => ret[t].value = FALSE

-----------------------------------------------------------------------------
(* is_resolved *)

\* the task returned a success record built from the parser's mapping
Scored(t) ==
    /\ Launched(t) /\ Done(t) /\ obs[t].parse_calls = 1
    /\ IsDict(ret[t]) /\ ret[t].status = "success"

\* C16: is_resolved(mapping) is true iff the mapping from test-case name to
\* status is non-empty and every entry is PASSED; None and the empty mapping
\* both give false.
C16_ResolvedIffNonEmptyAllPassed ==
    \A t \in TaskIds :
        Scored(t) =>
            (ret[t].resolved <=>
                /\ ret[t].results # None
                /\ ret[t].results[1] # {}
                /\ \A item \in ret[t].results[1] : item[2] = PASSED)

-----------------------------------------------------------------------------
(* The provisioner *)

\* the provisioner has returned True or False
ProvisionReturned(t) == obs[t].provision \in {"ok", "failed"}

\* C17: once _setup_test_env_compress has created the local archive
\* temp.tar.gz, the archive is deleted before the function returns, on
\* success, on a failed archive upload and on a failed remote extraction.
C17_ArchiveDeleted ==
    \A t \in TaskIds :
        (Launched(t) /\ ProvisionReturned(t) /\ obs[t].archive # "absent")
        => obs[t].archive = "deleted"

\* the remote steps of the provisioner: mkdir, two uploads and the extraction
\* in _setup_test_env_compress; the uv installation and two uploads in the
\* demo's setup_test_env
ProvisionSteps == IF program = "demo" THEN 3 + 2 ELSE 2 + 2

\* C18: the provisioner returns true iff every one of its remote steps
\* succeeded; after the first failing step it returns false and issues no
\* later remote step.
C18_ProvisionShortCircuits ==
    \A t \in TaskIds :
        /\ obs[t].provision = "ok"
             => (obs[t].steps = ProvisionSteps /\ obs[t].failed_step = 0)
        /\ (/\ obs[t].steps = ProvisionSteps /\ obs[t].failed_step = 0
            /\ obs[t].raised = {})
             => obs[t].provision = "ok"
        /\ obs[t].failed_step # 0
             => (obs[t].provision = "failed"
                 /\ obs[t].steps = obs[t].failed_step)

-----------------------------------------------------------------------------
(* The batch summary *)

SummaryPrinted == program = "batch" /\ main_pc = "exited" /\ exit_code = 0

\* C19: in the batch summary total = success-and-resolved count + failed
\* count, the failed count is the number of results whose status is
\* "failed", and every task counted as failed is in the printed failure list.
C19_SummaryCounts ==
    SummaryPrinted =>
        /\ summary.total = summary.success + summary.failed
        /\ summary.failed =
               Cardinality({i \in 1..Len(results) :
                               results[i].status = "failed"})
        /\ Cardinality(summary.listed) = summary.failed

-----------------------------------------------------------------------------
(* Sessions and output files of concurrent tasks *)

\* C20: any two tasks that run concurrently use different session
\* identifiers and different remote output-file paths.
C20_DistinctSessions ==
    \A t1, t2 \in Holders :
        t1 # t2 =>
            /\ loc[t1].session_name # ""
                 => loc[t1].session_name # loc[t2].session_name
            /\ loc[t1].output_file # ""
                 => loc[t1].output_file # loc[t2].output_file

\* C21: when every collaborator call eventually returns or raises and
\* scheduling is fair, run_parallel_evaluations eventually returns with every
\* launched task finished, whatever number of tasks fail, and no task waits
\* forever for a permit.
C21_BatchReturns ==
    <>(/\ main_pc \in {"summary", "exited", "crashed"}
       /\ \A t \in TaskIds : Launched(t) => Done(t))

\* gather has returned the results of two tasks that both failed
C21_Witness ==
    /\ BatchReturned /\ Len(results) = 2
    /\ \A i \in 1..2 : ~IsDict(results[i]) \/ results[i].status = "failed"

\* C22: run_single_task performs no step of the task before it holds a
\* permit and gives the permit back on every exit path; when
\* run_parallel_evaluations returns, no permit is held and the semaphore
\* counts parallel_num again.
C22_PermitScoped ==
    program = "batch" =>
        /\ \A t \in TaskIds :
              pc[t] \in {"idle", "acquire"} =>
                  obs[t] = InitObs /\ sandbox[t] = "none" /\ ret[t] = Pending
        /\ main_pc = "gather" =>
              semaphore = parallel_num - Cardinality(Holders)
        /\ BatchReturned /\ Discovered # <<>> =>
              Holders = {} /\ semaphore = parallel_num

\* both tasks are back, one by an exception that escaped and one for its
\* missing instruction, and both permits are free
C22_Witness ==
    /\ BatchReturned /\ parallel_num = 2 /\ semaphore = 2
    /\ \E t1, t2 \in Range(task_dirs) :
          /\ ~IsDict(ret[t1])
          /\ IsDict(ret[t2]) /\ ret[t2].status = "failed"
          /\ ret[t2].error = ErrNoInstruction

\* the command-line run is over
BatchEnded == program = "batch" /\ main_pc \in {"exited", "crashed"}

\* C23: the command-line run ends with a non-zero exit status when the tasks
\* directory does not exist and also when it exists but holds no task
\* directory.
C23_NothingToRunIsAnError ==
    BatchEnded /\ (~tasks_dir.exists \/ Discovered = <<>>) => exit_code # 0

\* C24: in the demo's run_task, once start_sandbox has returned a sandbox,
\* sandbox.stop() is called exactly once before run_task returns (after
\* success, after a provisioning failure, after an exception in
\* run_swe_evaluation), and it is never called when the task fails before
\* the sandbox was started.
C24_DemoStopsOnce ==
    program = "demo" =>
        \A t \in TaskIds :
            /\ obs[t].stop_calls <= 1
            /\ sandbox[t] = "none" => obs[t].stop_calls = 0
            /\ Done(t) /\ sandbox[t] # "none" => obs[t].stop_calls = 1

\* run_task is back after an exception in run_swe_evaluation, its sandbox
\* stopped by the one call
C24_Witness ==
    /\ Demo(1) /\ Done(1) /\ sandbox[1] = "stopped"
    /\ obs[1].stop_calls = 1 /\ obs[1].raised = {"exc"}
    /\ IsDict(ret[1]) /\ ret[1].status = "failed"

\* the pipeline event a task at label p is waiting for: 1 config load,
\* 2 sandbox start, 3 agent install, 4 agent run, 5 session creation,
\* 6 test-asset provisioning (the uv installation that prepares it included),
\* 7 scoring-script execution, 8 verdict parsing and result emission
StageOf(p) ==
    CASE p \in {"idle", "acquire"} -> 0
      [] p = "load_task_config" -> 1
      [] p = "start_sandbox" -> 2
      [] p = "agent_install" -> 3
      [] p = "agent_run" -> 4
      [] p = "create_session" -> 5
      [] p \in {"uv_install_wget", "uv_install_tar", "uv_install_version",
                "mkdir", "upload_dir", "upload_run_tests", "upload_archive",
                "extract"} -> 6
      [] p \in {"run_tests", "dispatch", "probe", "sleep", "read_output"} -> 7
      [] OTHER -> 8

\* what the task has done so far fits the event it is waiting for
StageEffects(t) ==
    LET k == StageOf(pc[t])
    IN  /\ ret[t] # Pending => k = 8
        /\ obs[t].config # "unread" => k >= 2
        /\ k \in 2..7 => GetInstruction(TaskConfig(obs[t].config)) # ""
        /\ obs[t].start_calls > 0 => k >= 3
        /\ k \in 3..7 => obs[t].start_calls = 1 /\ sandbox[t] = "running"
        /\ k \in 6..7 => loc[t].session_name = session_name
        /\ obs[t].steps > 0 => k >= 6
        /\ obs[t].script_starts > 0 => k >= 7 /\ obs[t].provision = "ok"
        /\ k = 7 => obs[t].provision = "ok"
        /\ obs[t].parse_calls > 0 =>
              k = 8 /\ obs[t].script_starts > 0 /\ obs[t].exec = "completed"

\* C25: within one task the pipeline events occur in a fixed order, each
\* beginning only after the previous one has completed: config load, sandbox
\* start, agent install, agent run, session creation, test-asset
\* provisioning, scoring-script execution, verdict parsing, result emission;
\* no event of a later stage precedes an event of an earlier stage.
C25_FixedOrder ==
    /\ [](\A t \in TaskIds : StageEffects(t))
    /\ [][\A t \in TaskIds :
            \/ StageOf(pc'[t]) = StageOf(pc[t])
            \/ StageOf(pc'[t]) = StageOf(pc[t]) + 1
            \/ StageOf(pc'[t]) = 8]_vars

\* a task of the batch has gone through every stage: its verdict is parsed
\* and its result emitted
C25_Witness ==
    \E t \in TaskIds :
        /\ Launched(t) /\ Done(t) /\ obs[t].parse_calls = 1
        /\ IsDict(ret[t]) /\ ret[t].status = "success"
        /\ ret[t].results # None

\* C26: when test-asset provisioning returns false inside run_single_task,
\* the task's result has status "failed" with an error cause, and neither
\* the scoring script is dispatched nor the result parser invoked.
C26_ProvisionFailureFails ==
    \A t \in TaskIds :
        Launched(t) /\ obs[t].provision = "failed" =>
            /\ Done(t) /\ IsDict(ret[t])
            /\ ret[t].status = "failed"
            /\ "error" \in DOMAIN ret[t] /\ ret[t].error # ""
            /\ obs[t].script_starts = 0 /\ obs[t].exec = "none"
            /\ obs[t].parse_calls = 0

\* the upload of the archive came back unsuccessful and the task is over
C26_Witness ==
    \E t \in TaskIds :
        /\ Launched(t) /\ Done(t) /\ obs[t].provision = "failed"
        /\ obs[t].failed_step = 3 /\ ret[t].status = "failed"

\* a step of the task has failed: the configuration had no instruction, a
\* collaborator raised, provisioning returned false, or the executor timed
\* out or could not dispatch
Failed(t) ==
    \/ obs[t].config # "unread"
          /\ GetInstruction(TaskConfig(obs[t].config)) = ""
    \/ obs[t].raised # {}
    \/ obs[t].provision = "failed"
    \/ obs[t].exec \in {"timeout", "dispatch_error"}

\* C27: once any step of a task has failed (config error, a collaborator
\* raising, provisioning returning false, executor timeout or dispatch
\* error), no later pipeline step (agent run, provisioning, scoring-script
\* dispatch, verdict parsing) is executed for that task, in run_single_task
\* and in the demo's run_task.
C27_FailedIsAbsorbing ==
    /\ [](\A t \in TaskIds : Failed(t) => pc[t] \in {"stop", "done"})
    /\ [][\A t \in TaskIds :
            Failed(t) =>
                /\ pc'[t] \in {"stop", "done"}
                /\ obs'[t].start_calls = obs[t].start_calls
                /\ obs'[t].steps = obs[t].steps
                /\ obs'[t].script_starts = obs[t].script_starts
                /\ obs'[t].parse_calls = obs[t].parse_calls]_vars

\* the demo's provisioning returned false and run_task is over, the scoring
\* script never started
C27_Witness ==
    /\ Demo(1) /\ Done(1) /\ obs[1].provision = "failed"
    /\ obs[1].stop_calls = 1 /\ obs[1].script_starts = 0

\* C28: for every integer timeout_sec (positive, zero or negative),
\* run_command_with_timeout reads and returns the output file only after a
\* liveness probe has reported that the process exited; in every other case
\* where a PID was obtained it returns the TimedOut outcome.
C28_ReadOnlyAfterExitProbe ==
    program = "executor" =>
        /\ loc[1].reads > 0 => loc[1].probes > 0 /\ loc[1].exit_code # 0
        /\ pc[1] = "returned" /\ loc[1].pid # <<>> /\ loc[1].reads = 0
              => loc[1].resp = "timeout"

\* C29: run_command_with_timeout never issues a command that terminates the
\* remote process: it dispatches once, probes and reads the output file at
\* most once, and the process ends only on its own, never in a step of the
\* call; so after a TimedOut outcome the process may still be alive.
C29_NoKill ==
    /\ [](program = "executor" =>
             loc[1].reads <= 1 /\ obs[1].script_starts <= 1)
    /\ [][\A t \in TaskIds :
            loc[t].proc = "alive" /\ loc'[t].proc = "exited" =>
                /\ pc'[t] = pc[t] /\ obs'[t] = obs[t]
                /\ loc'[t] = [loc[t] EXCEPT !.proc = "exited"]]_vars

\* the call has returned "timeout" after its sleeps and the process it
\* started is still running
C29_Witness ==
    /\ ExecutorReturned(1) /\ loc[1].resp = "timeout"
    /\ obs[1].exec = "timeout" /\ loc[1].sleeps = MaxTimeout
    /\ loc[1].proc = "alive"

\* C30: in a task that reaches test execution the scoring script is started
\* exactly once, so the output file the executor later reads is written by
\* one run only.
C30_ScriptStartedOnce ==
    \A t \in TaskIds :
        Launched(t) =>
            /\ obs[t].script_starts <= 1
            /\ obs[t].exec \in {"completed", "timeout"}
                  => obs[t].script_starts = 1

\* C31: the list run_parallel_evaluations returns is in launch order: its
\* i-th element is the result of the i-th launched task directory, whatever
\* order the tasks complete in.
C31_ResultsInLaunchOrder ==
    BatchReturned /\ Discovered # <<>> =>
        /\ Len(results) = Len(task_dirs)
        /\ \A i \in 1..Len(results) :
              /\ results[i] = ret[task_dirs[i]]
              /\ IsDict(results[i]) => results[i].task_name = task_dirs[i]

\* the task launched first was the last to end, after the second with
\* another result, and the list is returned
C31_Witness ==
    /\ BatchReturned /\ Len(results) = 2
    /\ obs[task_dirs[1]].overtaken
    /\ IsDict(results[1]) /\ IsDict(results[2])
    /\ results[1].status = "success" /\ results[2].status = "failed"

\* C32: the integration test's _extract_pid is equivalent to the example's:
\* for every dispatch response both return the same PID or both return the
\* empty string, so both executors classify the dispatch the same way.
C32_ExtractPidEquivalent ==
    Responded(1) => loc[1].pid = test_extract_pid(loc[1].response)

====
